---- MODULE Spec2Model ----
(***************************************************************************)
(* bokeh/plotting.py: the process-wide plotting context (current document,*)
(* default session, default file sink, notebook flag) and the dispatch of *)
(* drawing calls, show(), save() and push() to the configured sinks.      *)
(*                                                                         *)
(* Every public function of the module is one action.  An action records  *)
(* in `last` the call it models: its arguments, the calls it made on the  *)
(* external collaborators, in order (`events`), the exception it raised   *)
(* (`error`) and the value it returned (`retval`).                        *)
(***************************************************************************)
EXTENDS Integers, Sequences, FiniteSets, Bags, TLC

VARIABLES default_document, default_session, default_file, default_notebook, last

vars == <<default_document, default_session, default_file, default_notebook, last>>

\* Python's None, for object-valued and for string-valued names.
None == [class |-> "NoneType"]
NoneStr == "None"

(***************************************************************************)
(* Bounds of the model.                                                    *)
(***************************************************************************)
\* glyph renderers a document may hold
MaxGlyphs == 2
\* GridPlots a document may hold
MaxGrids == 1
\* plots a document may hold when figure is called
MaxPlots == 3
\* gridplot calls made on a document of several plots
MaxGridCalls == 2

(***************************************************************************)
(* Argument domains.                                                       *)
(***************************************************************************)
\* file names are non-empty strings
Filenames == {"a.html", "b.html"}
\* the (filename, title) pairs output_file is called with here
FileTitles == {<<"a.html", "Bokeh Plot">>, <<"b.html", "T">>}
Modes == {"inline", "cdn", "relative", "relative-dev", "absolute", "absolute-dev"}
RootDirs == {"static"}
DocNames == {"doc"}
DEFAULT_SERVER_URL == "DEFAULT_SERVER_URL"
ServerUrls == {"default", "http://h"}
ServerNames == {NoneStr, "n"}
ShowUrls == {NoneStr, "http://shown"}
NewModes == {"tab", "window", "popup"}

(***************************************************************************)
(* External collaborators, as the values this module hands around.         *)
(***************************************************************************)
Session(name, root_url) == [class |-> "Session", name |-> name, root_url |-> root_url]
Cloud == [class |-> "Cloud", name |-> "cloud", root_url |-> "http://cloud"]
Resources(mode, rootdir, minified) ==
    [class |-> "Resources", mode |-> mode, rootdir |-> rootdir, minified |-> minified]
Plot(i) == [class |-> "Plot", id |-> i]

\* sessions and resources a caller may pass explicitly
ExplicitSessions == {Session("mine", "http://mine")}
ExplicitResources == {Resources("cdn", NoneStr, TRUE)}

\* events: the calls made on the collaborators
PushDirty(session, document) ==
    [call |-> "push_dirty", session |-> session, document |-> document]
Write(filename, resources, title, document) ==
    [call |-> "write", filename |-> filename, resources |-> resources,
     title |-> title, document |-> document]
Warn(msg) == [call |-> "warn", msg |-> msg]
UseDoc(session, docname) == [call |-> "use_doc", session |-> session, docname |-> docname]
PullDocument(session, document) ==
    [call |-> "pull_document", session |-> session, document |-> document]
Open(url, has_new, new) == [call |-> "open", url |-> url, has_new |-> has_new, new |-> new]
Publish(plot, document) ==
    [call |-> "publish_display_data", plot |-> plot, document |-> document]
\* the call of a glyph function, with the names of its keyword arguments
Func(name, kwargs, document) ==
    [call |-> "func", name |-> name, kwargs |-> kwargs, document |-> document]
\* Document.add of a GridPlot
Add(obj, document) == [call |-> "add", obj |-> obj, document |-> document]
NoArgs == [none |-> TRUE]

\* what a call did: the collaborator calls in order, and the exception raised
Outcome(events, error) == [events |-> events, error |-> error]

Calls(events, c) == {i \in DOMAIN events : events[i].call = c}

(***************************************************************************)
(* The current context.                                                    *)
(***************************************************************************)
\* No request of a hosting server is being handled: the import or the
\* attribute lookup of lines 40-41 fails and the default document is returned.
curdoc == default_document

curplot == curdoc.curplot

\* variant: a cursession that makes a default session when there is none
cursession_lazy ==
    IF default_session = None THEN Session(DEFAULT_SERVER_URL, DEFAULT_SERVER_URL)
    ELSE default_session

cursession == default_session

(***************************************************************************)
(* save and push, on document d (the current document when they run).      *)
(***************************************************************************)
save(filename, resources, d) ==
    LET fn == IF filename = NoneStr /\ default_file # None
              THEN default_file.filename ELSE filename
        res == IF resources = None /\ default_file # None
               THEN default_file.resources ELSE resources
    IN  IF fn = NoneStr THEN Outcome(<<Warn("no filename")>>, NoneStr)
        ELSE IF res = None THEN Outcome(<<Warn("no resources")>>, NoneStr)
        ELSE IF default_file = None THEN Outcome(<<>>, "TypeError")
        ELSE Outcome(<<Write(fn, res, default_file.title, d)>>, NoneStr)

\* The definition of line 312 replaces that of line 64.  A missing document is
\* resolved to the current one (lines 315-316), and line 318 pushes curdoc()
\* whatever `document` is.
push(session, document, d) ==
    LET s == IF session = None THEN cursession ELSE session
    IN  IF s # None THEN Outcome(<<PushDirty(s, d)>>, NoneStr)
        ELSE Outcome(<<Warn("no session")>>, NoneStr)

\* b after a: b runs only if a raised nothing
Then(a, b) ==
    IF a.error # NoneStr THEN a
    ELSE Outcome(a.events \o b.events, b.error)

Nothing == Outcome(<<>>, NoneStr)

Call(op, args, out, retval) ==
    [op |-> op, args |-> args, events |-> out.events, error |-> out.error,
     retval |-> IF out.error = NoneStr THEN retval ELSE NoneStr]

(***************************************************************************)
(* The sinks.                                                              *)
(***************************************************************************)
output_file_resources(mode, rootdir) == Resources("inline", rootdir, FALSE)

output_file(filename, title, autosave, mode, rootdir) ==
    /\ default_file' = [filename |-> filename,
                        resources |-> output_file_resources(mode, rootdir),
                        autosave |-> autosave,
                        title |-> title]
    /\ last' = Call("output_file",
                    [filename |-> filename, title |-> title, autosave |-> autosave,
                     mode |-> mode, rootdir |-> rootdir],
                    Nothing, NoneStr)
    /\ UNCHANGED <<default_document, default_session, default_notebook>>

output_notebook ==
    /\ default_notebook' = TRUE
    /\ last' = Call("output_notebook", NoArgs, Nothing, NoneStr)
    /\ UNCHANGED <<default_document, default_session, default_file>>


output_server(docname, session, url, name) ==
    LET url2 == IF url = "default" THEN DEFAULT_SERVER_URL ELSE url
        name2 == IF name = NoneStr THEN url2 ELSE name
        made == IF session = None /\ default_session = None
                THEN Session(name2, url2) ELSE default_session
        session2 == IF session = None THEN made ELSE session
    IN  /\ default_session' = made
        /\ last' = Call("output_server",
                        [docname |-> docname, session |-> session, url |-> url,
                         name |-> name],
                        Outcome(<<UseDoc(session2, docname),
                                  PullDocument(session2, curdoc)>>, NoneStr),
                        NoneStr)
        /\ UNCHANGED <<default_document, default_file, default_notebook>>

output_cloud(docname) ==
    /\ last' = Call("output_cloud", [docname |-> docname],
                    Outcome(<<UseDoc(Cloud, docname), PullDocument(Cloud, curdoc)>>,
                            NoneStr),
                    NoneStr)
    /\ UNCHANGED <<default_document, default_session, default_file, default_notebook>>

(***************************************************************************)
(* The document collaborator (bokeh/document.py and _glyph_functions.py,   *)
(* which this module only calls).                                          *)
(***************************************************************************)
\* the document's autostore flag, set by its owner
set_autostore(value) ==
    /\ default_document.autostore # value
    /\ default_document' = [default_document EXCEPT !.autostore = value]
    /\ last' = Call("autostore", [value |-> value], Nothing, NoneStr)
    /\ UNCHANGED <<default_session, default_file, default_notebook>>

\* a new plot of document d, made the current plot and a child of the context
NewPlot(d) ==
    LET p == Plot(Cardinality(d.plots) + 1)
    IN  [d EXCEPT !.curplot = p, !.plots = @ \cup {p},
                  !.children = @ (+) SetToBag({p})]

\* a glyph function adds one renderer to the current plot, which it creates
\* when the document has none
glyph_function(d) ==
    LET d1 == IF d.curplot = None THEN NewPlot(d) ELSE d
    IN  [d1 EXCEPT !.glyphs = @ + 1]

\* Document.add: registers obj as a child of the context unless it is one
document_add(d, obj) ==
    IF BagIn(obj, d.children) THEN d
    ELSE [d EXCEPT !.children = @ (+) SetToBag({obj})]

(***************************************************************************)
(* Drawing calls.                                                          *)
(***************************************************************************)
GlyphOps ==
    {"annular_wedge", "annulus", "arc", "asterisk", "bezier", "circle",
     "circle_cross", "circle_x", "cross", "diamond", "diamond_cross", "image",
     "image_rgba", "image_url", "inverted_triangle", "line", "multi_line", "oval",
     "patch", "patches", "quad", "quadratic", "ray", "rect", "segment", "square",
     "square_cross", "square_x", "text", "triangle", "wedge", "x"}

\* the glyph operations drawn here: the wrapper is the same for all of them
DrawnGlyphs == {"line", "circle", "text"}

\* variant: the autostore flag is not consulted
autostore_push_always(d) == cursession # None

\* line 326: the wrapper pushes
autostore_push(d) == cursession # None /\ d.autostore

\* variant: the autosave flag is not consulted
autosave_file_always == default_file # None

\* line 328: the wrapper saves
autosave_file == default_file # None /\ default_file.autosave

\* variant: the wrapper saves before it pushes
document_wrap_save_first(func, d) ==
    Then(Outcome(<<func>>, NoneStr),
         Then(IF autosave_file THEN save(NoneStr, None, d) ELSE Nothing,
              IF autostore_push(d) THEN push(None, None, d) ELSE Nothing))

\* the external calls that can be made to raise
Collaborators == {"func", "push_dirty", "write"}

\* the calls of out as far as the first that raises: fails are the calls that do
Attempt(out, fails) ==
    LET bad == {i \in DOMAIN out.events : out.events[i].call \in fails}
        first == CHOOSE i \in bad : \A j \in bad : i <= j
    IN  IF bad = {} THEN out
        ELSE Outcome(SubSeq(out.events, 1, first),
                     out.events[first].call \o " raised")

\* variant: a push that raises is caught and the wrapper goes on
document_wrap_catching(func, d, fails) ==
    LET pushed == Attempt(push(None, None, d), fails)
    IN  Then(Attempt(Outcome(<<func>>, NoneStr), fails),
             Then(IF autostore_push(d) THEN Outcome(pushed.events, NoneStr)
                  ELSE Nothing,
                  IF autosave_file THEN Attempt(save(NoneStr, None, d), fails)
                  ELSE Nothing))

\* lines 324-330, the calls in fails raising: nothing in the wrapper catches
document_wrap_raising(func, d, fails) ==
    Then(Attempt(Outcome(<<func>>, NoneStr), fails),
         Then(IF autostore_push(d) THEN Attempt(push(None, None, d), fails)
              ELSE Nothing,
              IF autosave_file THEN Attempt(save(NoneStr, None, d), fails)
              ELSE Nothing))

\* the wrapper around a glyph function, no collaborator raising: func is the call
\* of the function, d the current document after it
document_wrap(func, d) == document_wrap_raising(func, d, {})

\* a glyph operation whose collaborators in fails raise; a glyph function that
\* raises may or may not have changed the document by then
glyph_raising(name, fails) ==
    /\ default_document.glyphs < MaxGlyphs
    /\ \E d \in IF "func" \in fails
                THEN {default_document, glyph_function(default_document)}
                ELSE {glyph_function(default_document)} :
          /\ default_document' = d
          /\ last' = Call("glyph", [name |-> name, fails |-> fails],
                          document_wrap_raising(Func(name, {}, d), d, fails), name)
    /\ UNCHANGED <<default_session, default_file, default_notebook>>

glyph(name) ==
    /\ default_document.glyphs < MaxGlyphs
    /\ LET d == glyph_function(default_document)
       IN  /\ default_document' = d
           /\ last' = Call("glyph", [name |-> name],
                           document_wrap(Func(name, {}, d), d), name)
    /\ UNCHANGED <<default_session, default_file, default_notebook>>

\* the table with the alias o+ bound to the operation of ox
_marker_types_alias_slip ==
    [m \in {"asterisk", "circle", "circle_cross", "circle_x", "cross", "diamond",
            "diamond_cross", "inverted_triangle", "square", "square_x",
            "square_cross", "triangle", "x", "*", "+", "o", "ox", "o+"} |->
        CASE m = "*" -> "asterisk"
          [] m = "+" -> "cross"
          [] m = "o" -> "circle"
          [] m = "ox" -> "circle_x"
          [] m = "o+" -> "circle_x"
          [] OTHER -> m]

_marker_types ==
    [m \in {"asterisk", "circle", "circle_cross", "circle_x", "cross", "diamond",
            "diamond_cross", "inverted_triangle", "square", "square_x",
            "square_cross", "triangle", "x", "*", "+", "o", "ox", "o+"} |->
        CASE m = "*" -> "asterisk"
          [] m = "+" -> "cross"
          [] m = "o" -> "circle"
          [] m = "ox" -> "circle_x"
          [] m = "o+" -> "circle_cross"
          [] OTHER -> m]

_color_fields == {"color", "fill_color", "line_color"}
_alpha_fields == {"alpha", "fill_alpha", "line_alpha"}

\* the markers and the keyword arguments scatter is called with here: no marker, a
\* full name, an alias and an unknown marker; no field, one field of a group
ScatterMarkers == {NoneStr, "square", "o", "bogus"}
ScatterKwargs == {{}, {"fill_color"}, {"line_alpha"}}

\* every marker of the table, no marker, and markers the table does not have, one
\* of them the name of a glyph operation that is no marker
Markers == DOMAIN _marker_types \cup {NoneStr, "bogus", "Circle", "line"}
\* every choice of color and alpha fields a caller can supply
Kwargs == SUBSET (_color_fields \cup _alpha_fields)

\* the scatter calls made: every marker with no field supplied, and every choice
\* of fields with no marker and with an alias
ScatterCalls == (Markers \X {{}}) \cup ({NoneStr, "+"} \X Kwargs)

\* kwargs[key] = value on a dict kept as a set of <<key, value>> pairs
setitem(kwargs, key, value) ==
    {kv \in kwargs : kv[1] # key} \cup {<<key, value>>}
keys(kwargs) == {kv[1] : kv \in kwargs}
\* the dict of a call that supplies the fields given, each with its own value
supplied(marker, fields) ==
    {<<f, "caller's " \o f>> : f \in fields}
        \cup (IF marker # NoneStr THEN {<<"marker", marker>>} ELSE {})

\* defaults decided field by field: color unless color itself was supplied
scatter_kwargs_per_field(kwargs) ==
    LET k1 == setitem(kwargs, "source", "datasource")
        k2 == IF "color" \notin keys(k1)
              THEN setitem(k1, "color", "get_default_color()") ELSE k1
    IN  IF "alpha" \notin keys(k2)
        THEN setitem(k2, "alpha", "get_default_alpha()") ELSE k2

\* lines 424-434: the keyword arguments scatter passes on
scatter_kwargs(kwargs) ==
    LET k1 == setitem(kwargs, "source", "datasource")
        k2 == IF _color_fields \cap keys(k1) = {}
              THEN setitem(k1, "color", "get_default_color()") ELSE k1
    IN  IF _alpha_fields \cap keys(k2) = {}
        THEN setitem(k2, "alpha", "get_default_alpha()") ELSE k2

\* lines 436-437: the error names the marker
InvalidMarker(markertype) ==
    "ValueError: Invalid marker type '" \o markertype \o "'"

scatter(marker, kwargs) ==
    LET markertype == IF marker = NoneStr THEN "circle" ELSE marker
        valid == markertype \in DOMAIN _marker_types
        d == IF valid THEN glyph_function(default_document) ELSE default_document
    IN  /\ valid => default_document.glyphs < MaxGlyphs
        /\ default_document' = d
        /\ last' = Call("scatter", [marker |-> marker, kwargs |-> kwargs],
                        IF valid
                        THEN document_wrap(Func(_marker_types[markertype],
                                                scatter_kwargs(supplied(marker, kwargs)),
                                                d), d)
                        ELSE Outcome(<<>>, InvalidMarker(markertype)),
                        IF valid THEN _marker_types[markertype] ELSE NoneStr)
        /\ UNCHANGED <<default_session, default_file, default_notebook>>

\* oid tells one GridPlot object from another of the same _id
GridPlot(oid, id, children) ==
    [class |-> "GridPlot", oid |-> oid, id |-> id, children |-> children]

Grids(d) == {c \in BagToSet(d.children) : c.class = "GridPlot"}

\* the plot arrangements and names gridplot is called with here
Arrangements ==
    {<<<<Plot(1)>>>>, <<<<Plot(1), Plot(2)>>>>}
GridNames == {NoneStr, "g"}

\* variant: only the first row of the arrangement is walked
Subplots_first_row(plot_arrangement) ==
    {plot_arrangement[1][j] : j \in DOMAIN plot_arrangement[1]}

\* itertools.chain.from_iterable, as the set line 458 makes of it
Subplots(plot_arrangement) ==
    UNION {{plot_arrangement[i][j] : j \in DOMAIN plot_arrangement[i]} :
           i \in DOMAIN plot_arrangement}

\* lines 459-464: what gridplot does once the grid is built; add is the call
\* of Document.add, d the current document after it
gridplot_effects(add, d) ==
    Then(Outcome(<<add>>, NoneStr),
         Then(IF default_session # None THEN push(None, None, d) ELSE Nothing,
              IF default_file # None /\ default_file.autosave
              THEN save(NoneStr, None, d) ELSE Nothing))

\* line 458: list(set(children) - set(subplots)), a list without repeats; the
\* children are kept as a bag, the order of the list being of no consequence
ungrouped(children, subplots) == SetToBag(BagToSet(children) \ subplots)

\* gridplot on a document of fewer than bound grids
gridplot_within(bound, plot_arrangement, name) ==
    LET n == Cardinality(Grids(default_document)) + 1
        \* an unnamed grid keeps the id it was constructed with
        grid == GridPlot(n, IF name # NoneStr THEN name ELSE "uuid-" \o ToString(n),
                         plot_arrangement)
        d0 == [default_document EXCEPT
                  !.children = ungrouped(@, Subplots(plot_arrangement))]
        d == document_add(d0, grid)
    IN  /\ Cardinality(Grids(default_document)) < bound
        /\ default_document' = d
        \* the function has no return statement
        /\ last' = Call("gridplot", [plot_arrangement |-> plot_arrangement, name |-> name],
                        gridplot_effects(Add(grid, d), d), NoneStr)
        /\ UNCHANGED <<default_session, default_file, default_notebook>>

gridplot(plot_arrangement, name) == gridplot_within(MaxGrids, plot_arrangement, name)

\* lines 84-95: figure activates a new plot of the current document
figure ==
    /\ Cardinality(default_document.plots) < MaxPlots
    /\ default_document' = NewPlot(default_document)
    /\ last' = Call("figure", NoArgs, Nothing, NoneStr)
    /\ UNCHANGED <<default_session, default_file, default_notebook>>

\* the arrangements of plots of document d: one plot, two in a row, two rows
PlotArrangements(d) ==
    {<<<<p>>>> : p \in d.plots}
        \cup {<<<<pq[1], pq[2]>>>> : pq \in {x \in d.plots \X d.plots : x[1].id < x[2].id}}
        \cup {<<<<pq[1]>>, <<pq[2]>>>> : pq \in {x \in d.plots \X d.plots : x[1].id < x[2].id}}

(***************************************************************************)
(* show, save and push as the caller calls them.                           *)
(***************************************************************************)
\* line 233: the webbrowser.open argument of a `new`
new_param(new) == CASE new = "tab" -> 2 [] new = "window" -> 1

abspath(filename) == "/cwd/" \o filename

\* Session.object_link of the document's plot context
object_link(session) == session.root_url \o "/bokeh/context"

\* variant: `new` is looked up only where a browser is opened
show_lookup_late(new, url) ==
    LET filename == IF default_file # None THEN default_file.filename ELSE NoneStr
        session == cursession
        notebook == default_notebook
        bad == new \notin {"tab", "window"}
    IN  IF notebook /\ session # None THEN push(session, None, curdoc)
        ELSE IF notebook
        THEN IF curplot = None THEN Outcome(<<>>, "AttributeError")
             ELSE Outcome(<<Publish(curplot, curdoc)>>, NoneStr)
        ELSE IF bad THEN Outcome(<<>>, "KeyError")
        ELSE IF session # None
        THEN Then(push(None, None, curdoc),
                  IF url # NoneStr
                  THEN Outcome(<<Open(url, TRUE, new_param(new))>>, NoneStr)
                  ELSE Outcome(<<Open(object_link(session), FALSE, 0)>>, NoneStr))
        ELSE IF filename # NoneStr
        THEN Then(save(filename, None, curdoc),
                  Outcome(<<Open("file://" \o abspath(filename), TRUE, new_param(new))>>,
                          NoneStr))
        ELSE Nothing

\* lines 228-254: what show does (the browser controller of line 235 is the
\* one every open is made on)
show_dispatch(new, url) ==
    LET filename == IF default_file # None THEN default_file.filename ELSE NoneStr
        session == cursession
        notebook == default_notebook
    IN  IF new \notin {"tab", "window"} THEN Outcome(<<>>, "KeyError")
        ELSE IF notebook /\ session # None THEN push(session, None, curdoc)
        ELSE IF notebook
        THEN \* _notebook_div takes the reference of the current plot
             IF curplot = None THEN Outcome(<<>>, "AttributeError")
             ELSE Outcome(<<Publish(curplot, curdoc)>>, NoneStr)
        ELSE IF session # None
        THEN Then(push(None, None, curdoc),
                  IF url # NoneStr
                  THEN Outcome(<<Open(url, TRUE, new_param(new))>>, NoneStr)
                  ELSE \* line 250 passes no `new`
                       Outcome(<<Open(object_link(session), FALSE, 0)>>, NoneStr))
        ELSE IF filename # NoneStr
        THEN Then(save(filename, None, curdoc),
                  Outcome(<<Open("file://" \o abspath(filename), TRUE, new_param(new))>>,
                          NoneStr))
        ELSE Nothing

show(new, url) ==
    /\ last' = Call("show", [new |-> new, url |-> url], show_dispatch(new, url), NoneStr)
    /\ UNCHANGED <<default_document, default_session, default_file, default_notebook>>

save_call(filename, resources) ==
    /\ last' = Call("save", [filename |-> filename, resources |-> resources],
                    save(filename, resources, curdoc), NoneStr)
    /\ UNCHANGED <<default_document, default_session, default_file, default_notebook>>

\* a document of the caller's that is not the current document
OtherDocument ==
    [autostore |-> TRUE, curplot |-> None, plots |-> {}, children |-> EmptyBag, glyphs |-> 0,
     other |-> TRUE]

push_call(session, document) ==
    /\ last' = Call("push", [session |-> session, document |-> document],
                    push(session, document, curdoc), NoneStr)
    /\ UNCHANGED <<default_document, default_session, default_file, default_notebook>>

(***************************************************************************)
(* The accessors of the current plot's axes, grids and legends.            *)
(***************************************************************************)
Axis(dimension) == [class |-> "Axis", dimension |-> dimension]
Grid(dimension) == [class |-> "Grid", dimension |-> dimension]
Legend == [class |-> "Legend"]
GlyphRenderer == [class |-> "Glyph"]

\* the renderer lists a current plot is found with: none, a glyph only, the
\* axes and grids of both dimensions, two x axes and a legend, no x renderer
RendererLists ==
    {<<>>,
     <<GlyphRenderer>>,
     <<Axis(0), Axis(1), Grid(0), Grid(1), GlyphRenderer>>,
     <<Axis(0), Legend, Axis(0)>>,
     <<Grid(1), Legend, Axis(1)>>}

\* the current plot as an accessor sees it
PlotWith(renderers) ==
    IF curplot = None THEN None
    ELSE [class |-> "Plot", id |-> curplot.id, renderers |-> renderers]

\* plotting_helpers._list_attr_splat: a list, also when it is empty
_list_attr_splat(list) == [class |-> "_list_attr_splat", items |-> list]

\* what a call gives: a value, or an exception
Returns(value) == [value |-> value, error |-> NoneStr]
Raises(error) == [value |-> None, error |-> error]

\* variant: an empty collection where there is no current plot
xaxis_empty(p) ==
    Returns(_list_attr_splat(
        IF p = None THEN <<>>
        ELSE SelectSeq(p.renderers,
                       LAMBDA obj : obj.class = "Axis" /\ obj.dimension = 0)))

xaxis(p) ==
    IF p = None THEN Returns(None)
    ELSE Returns(_list_attr_splat(
             SelectSeq(p.renderers,
                       LAMBDA obj : obj.class = "Axis" /\ obj.dimension = 0)))

yaxis(p) ==
    IF p = None THEN Returns(None)
    ELSE Returns(_list_attr_splat(
             SelectSeq(p.renderers,
                       LAMBDA obj : obj.class = "Axis" /\ obj.dimension = 1)))

legend(p) ==
    IF p = None THEN Returns(None)
    ELSE Returns(_list_attr_splat(
             SelectSeq(p.renderers, LAMBDA obj : obj.class = "Legend")))

xgrid(p) ==
    IF p = None THEN Returns(None)
    ELSE Returns(_list_attr_splat(
             SelectSeq(p.renderers,
                       LAMBDA obj : obj.class = "Grid" /\ obj.dimension = 0)))

ygrid(p) ==
    IF p = None THEN Returns(None)
    ELSE Returns(_list_attr_splat(
             SelectSeq(p.renderers,
                       LAMBDA obj : obj.class = "Grid" /\ obj.dimension = 1)))

\* a + b of two accessor results: list concatenation, a TypeError on None
plus(a, b) ==
    IF a.value = None \/ b.value = None THEN Raises("TypeError")
    ELSE Returns(a.value.items \o b.value.items)

axis(p) ==
    LET sum == plus(xaxis(p), yaxis(p))
    IN  IF sum.error # NoneStr THEN sum ELSE Returns(_list_attr_splat(sum.value))

grid(p) ==
    LET sum == plus(xgrid(p), ygrid(p))
    IN  IF sum.error # NoneStr THEN sum ELSE Returns(_list_attr_splat(sum.value))

Accessors == {"xaxis", "yaxis", "axis", "legend", "xgrid", "ygrid", "grid"}

\* a call of the accessor named, the current plot holding the renderers given
accessor_call(name, renderers) ==
    LET p == PlotWith(renderers)
        result == CASE name = "xaxis" -> xaxis(p)
                    [] name = "yaxis" -> yaxis(p)
                    [] name = "axis" -> axis(p)
                    [] name = "legend" -> legend(p)
                    [] name = "xgrid" -> xgrid(p)
                    [] name = "ygrid" -> ygrid(p)
                    [] name = "grid" -> grid(p)
    IN  /\ last' = [op |-> name, args |-> [p |-> p], events |-> <<>>,
                    error |-> result.error, retval |-> result.value]
        /\ UNCHANGED <<default_document, default_session, default_file,
                       default_notebook>>

Init ==
    /\ default_document = [autostore |-> TRUE, curplot |-> None, plots |-> {},
                           children |-> EmptyBag, glyphs |-> 0]
    /\ default_session = None
    /\ default_file = None
    /\ default_notebook = FALSE
    /\ last = Call("import", NoArgs, Nothing, NoneStr)

Next ==
    \/ \E ft \in FileTitles, a \in BOOLEAN, m \in Modes, r \in RootDirs :
          output_file(ft[1], ft[2], a, m, r)
    \/ output_notebook
    \/ \E dn \in DocNames, s \in ExplicitSessions \cup {None}, u \in ServerUrls,
          n \in ServerNames : output_server(dn, s, u, n)
    \/ \E dn \in DocNames : output_cloud(dn)
    \/ \E b \in BOOLEAN : set_autostore(b)
    \/ \E g \in DrawnGlyphs : glyph(g)
    \/ \E m \in ScatterMarkers, k \in ScatterKwargs : scatter(m, k)
    \/ \E a \in Arrangements, n \in GridNames : gridplot(a, n)
    \/ \E n \in NewModes, u \in ShowUrls : show(n, u)
    \/ \E f \in Filenames \cup {NoneStr}, r \in ExplicitResources \cup {None} :
          save_call(f, r)
    \/ \E s \in ExplicitSessions \cup {None}, d \in {None, OtherDocument} :
          push_call(s, d)

Spec == Init /\ [][Next]_vars

(***************************************************************************)
(* What the last call did.                                                 *)
(***************************************************************************)
Pushes == Calls(last.events, "push_dirty")
Writes == Calls(last.events, "write")
Opens == Calls(last.events, "open")
Publishes == Calls(last.events, "publish_display_data")
Mutations == Calls(last.events, "func") \cup Calls(last.events, "add")

\* the last call was a drawing call
Drawing == last.op \in {"glyph", "scatter", "gridplot"}
\* the last call was a wrapped glyph operation, called directly or by scatter
Wrapped == last.op = "glyph" \/ (last.op = "scatter" /\ last.error = NoneStr)

NoSinks == default_session = None /\ default_file = None

(***************************************************************************)
(* C1: while no session and no file sink is configured (output_server,     *)
(* output_cloud and output_file were never called), a drawing call makes   *)
(* no push_dirty call on any session and writes no file.                   *)
(***************************************************************************)
C1_NoSinkNoSideEffect ==
    (Drawing /\ NoSinks) => (Pushes = {} /\ Writes = {})

\* a gridplot after two glyph calls, with nothing configured but the notebook
C1_Witness ==
    /\ last.op = "gridplot" /\ last.error = NoneStr
    /\ NoSinks /\ default_notebook
    /\ default_document.glyphs >= 2
    /\ Mutations # {}

(***************************************************************************)
(* C2: a drawing call that returns saves exactly once, to the filename,    *)
(* resources and title of the file sink (the dict the most recent          *)
(* output_file call stored), if a file sink exists and its autosave is     *)
(* true, and does not save otherwise.                                      *)
(***************************************************************************)
C2_AutosaveExactlyOnce ==
    (Drawing /\ last.error = NoneStr) =>
        IF default_file # None /\ default_file.autosave
        THEN /\ Cardinality(Writes) = 1
             /\ \A i \in Writes :
                   /\ last.events[i].filename = default_file.filename
                   /\ last.events[i].resources = default_file.resources
                   /\ last.events[i].title = default_file.title
        ELSE Writes = {}

\* a scatter call that saved to the second file configured
C2_Witness ==
    /\ last.op = "scatter" /\ last.error = NoneStr
    /\ default_file # None /\ default_file.autosave
    /\ Cardinality(Writes) = 1
    /\ \E i \in Writes : /\ last.events[i].filename = "b.html"
                         /\ last.events[i].title = "T"

(***************************************************************************)
(* C3: show() with a valid `new` executes exactly the first matching       *)
(* strategy: notebook and session: one push and nothing else; notebook     *)
(* only: one publish and nothing else; session without notebook: one push  *)
(* and one browser open, no save; file sink only: one save, then one       *)
(* browser open at file://<absolute path>; nothing configured: nothing,    *)
(* and no error.                                                           *)
(***************************************************************************)
C3_ShowFirstMatch ==
    (last.op = "show" /\ last.args.new \in {"tab", "window"}) =>
        LET n(S) == Cardinality(S)
            did(pu, pb, op, wr) ==
                /\ last.error = NoneStr
                /\ n(Pushes) = pu /\ n(Publishes) = pb /\ n(Opens) = op /\ n(Writes) = wr
        IN  IF default_notebook /\ default_session # None THEN did(1, 0, 0, 0)
            ELSE IF default_notebook THEN did(0, 1, 0, 0)
            ELSE IF default_session # None THEN did(1, 0, 1, 0)
            ELSE IF default_file # None
            THEN /\ did(0, 0, 1, 1)
                 /\ \A w \in Writes, o \in Opens :
                       /\ w < o
                       /\ last.events[o].url = "file:///cwd/" \o default_file.filename
            ELSE did(0, 0, 0, 0) /\ last.events = <<>>

(***************************************************************************)
(* C4: whenever show() opens a browser, it opens it with the mode mapped   *)
(* from `new`: 2 (a new tab) for "tab", 1 (a new window) for "window".     *)
(***************************************************************************)
C4_OpenWithNewMode ==
    last.op = "show" =>
        \A o \in Opens :
            /\ last.events[o].has_new
            /\ last.events[o].new = (IF last.args.new = "tab" THEN 2 ELSE 1)

(***************************************************************************)
(* C5: show() with a `new` other than "tab" and "window" raises, in every  *)
(* sink configuration, before any push, save, publish or browser open,     *)
(* and leaves the sinks and the document unchanged.                        *)
(***************************************************************************)
C5_InvalidNewFailsFast ==
    [][(last'.op = "show" /\ last'.args.new \notin {"tab", "window"}) =>
          /\ last'.error = "KeyError"
          /\ last'.events = <<>>
          /\ UNCHANGED <<default_document, default_session, default_file,
                         default_notebook>>]_vars

\* show(new="popup") in a notebook with no session and no file sink
C5_Witness ==
    /\ last.op = "show" /\ last.args.new = "popup"
    /\ last.error = "KeyError"
    /\ default_notebook /\ NoSinks

(***************************************************************************)
(* C6: in a drawing call (wrapped glyph operation or gridplot) that both   *)
(* pushes and saves, the document is mutated first, then pushed, then      *)
(* saved: what is pushed and what is saved is the mutated document.        *)
(***************************************************************************)
C6_MutateThenPushThenSave ==
    (Drawing /\ Pushes # {} /\ Writes # {}) =>
        /\ Mutations # {}
        /\ \A m \in Mutations, p \in Pushes, w \in Writes :
              /\ m < p /\ p < w
              /\ last.events[m].document = default_document
              /\ last.events[p].document = default_document
              /\ last.events[w].document = default_document

\* a glyph call that pushed and saved
C6_Witness ==
    /\ last.op = "glyph"
    /\ Pushes # {} /\ Writes # {}
    /\ default_document.glyphs >= 2

(***************************************************************************)
(* C7: a wrapped glyph operation, called directly or through scatter,      *)
(* pushes the current document to the current session exactly once if a    *)
(* current session is present and the document's autostore flag is true,   *)
(* and does not push otherwise.                                            *)
(***************************************************************************)
C7_PushIffSessionAndAutostore ==
    Wrapped =>
        IF default_session # None /\ default_document.autostore
        THEN /\ Cardinality(Pushes) = 1
             /\ \A p \in Pushes :
                   /\ last.events[p].session = default_session
                   /\ last.events[p].document = default_document
        ELSE Pushes = {}

\* a scatter call with a session whose document does not autostore: no push
C7_Witness ==
    /\ last.op = "scatter" /\ last.error = NoneStr
    /\ default_session # None /\ ~default_document.autostore
    /\ Pushes = {}
    /\ Calls(last.events, "func") # {}

(***************************************************************************)
(* C8: gridplot pushes if and only if a current session is present and     *)
(* the current document's autostore flag is true, and saves if and only    *)
(* if a file sink exists with autosave true.                               *)
(***************************************************************************)
C8_GridplotPostConditions ==
    last.op = "gridplot" =>
        /\ Pushes # {} <=> (default_session # None /\ default_document.autostore)
        /\ Writes # {} <=> (default_file # None /\ default_file.autosave)

(***************************************************************************)
(* C9: after output_file(filename, title, autosave, mode, rootdir) the     *)
(* file sink holds the values of this call, and its resources are built    *)
(* for the mode passed to this call.                                       *)
(***************************************************************************)
C9_FileSinkOfThisCall ==
    last.op = "output_file" =>
        /\ default_file.filename = last.args.filename
        /\ default_file.title = last.args.title
        /\ default_file.autosave = last.args.autosave
        /\ default_file.resources.rootdir = last.args.rootdir
        /\ default_file.resources.mode = last.args.mode

(***************************************************************************)
(* C10: save() takes filename and resources from its arguments and         *)
(* otherwise from the file sink; if either is missing it writes nothing    *)
(* and raises nothing; otherwise it writes the resolved filename exactly   *)
(* once, also when output_file was never called.                           *)
(***************************************************************************)
C10_SaveResolves ==
    last.op = "save" =>
        LET sink == default_file # None
            fn == IF last.args.filename # NoneStr THEN last.args.filename
                  ELSE IF sink THEN default_file.filename ELSE NoneStr
            res == IF last.args.resources # None THEN last.args.resources
                   ELSE IF sink THEN default_file.resources ELSE None
        IN  /\ last.error = NoneStr
            /\ IF fn = NoneStr \/ res = None THEN Writes = {}
               ELSE /\ Cardinality(Writes) = 1
                    /\ \A w \in Writes : /\ last.events[w].filename = fn
                                         /\ last.events[w].resources = res

(***************************************************************************)
(* C11: push(session, document) takes a missing session from cursession()  *)
(* and a missing document from curdoc(); with no session it makes no       *)
(* push_dirty call and raises nothing; otherwise it calls push_dirty once, *)
(* on the resolved session, with the resolved document: the document       *)
(* passed, when one is passed.                                             *)
(***************************************************************************)
C11_PushResolves ==
    last.op = "push" =>
        LET session == IF last.args.session # None THEN last.args.session
                       ELSE default_session
            document == IF last.args.document # None THEN last.args.document
                        ELSE default_document
        IN  /\ last.error = NoneStr
            /\ IF session = None THEN Pushes = {}
               ELSE /\ Cardinality(Pushes) = 1
                    /\ \A p \in Pushes : /\ last.events[p].session = session
                                         /\ last.events[p].document = document

(***************************************************************************)
(* C12: after a call of output_server (with or without a session           *)
(* argument) or of output_cloud, cursession() returns a session, the one   *)
(* use_doc and pull_document were called on.                               *)
(***************************************************************************)
C12_CursessionAfterOutputServer ==
    last.op \in {"output_server", "output_cloud"} =>
        /\ cursession # None
        /\ \A i \in Calls(last.events, "use_doc") \cup Calls(last.events, "pull_document") :
              last.events[i].session = cursession

(***************************************************************************)
(* C13: output_server called without a session replaces the default        *)
(* session: afterwards cursession() is a session made with the name and    *)
(* the url of this call.                                                   *)
(***************************************************************************)
C13_OutputServerReplaces ==
    (last.op = "output_server" /\ last.args.session = None) =>
        LET url == IF last.args.url = "default" THEN DEFAULT_SERVER_URL
                   ELSE last.args.url
            name == IF last.args.name = NoneStr THEN url ELSE last.args.name
        IN  cursession = [class |-> "Session", name |-> name, root_url |-> url]

(***************************************************************************)
(* scatter with every marker and every choice of color and alpha fields,   *)
(* under each sink configuration.                                          *)
(***************************************************************************)
NextScatter ==
    \/ \E a \in BOOLEAN : output_file("a.html", "Bokeh Plot", a, "inline", "static")
    \/ output_server("doc", None, "default", NoneStr)
    \/ \E v \in BOOLEAN : set_autostore(v)
    \/ \E c \in ScatterCalls : scatter(c[1], c[2])

SpecScatter == Init /\ [][NextScatter]_vars

\* the keyword arguments the glyph operation of the last call was given
Passed == UNION {last.events[i].kwargs : i \in Calls(last.events, "func")}

(***************************************************************************)
(* C14: scatter adds a default color if and only if the caller supplied    *)
(* none of color, fill_color, line_color, and a default alpha if and only  *)
(* if the caller supplied none of alpha, fill_alpha, line_alpha; each      *)
(* group is decided on its own, and every field the caller supplied is     *)
(* passed on with the caller's value.                                      *)
(***************************************************************************)
C14_DefaultsPerGroup ==
    (last.op = "scatter" /\ last.error = NoneStr) =>
        LET fields == last.args.kwargs
        IN  /\ <<"color", "get_default_color()">> \in Passed
                  <=> fields \cap {"color", "fill_color", "line_color"} = {}
            /\ <<"alpha", "get_default_alpha()">> \in Passed
                  <=> fields \cap {"alpha", "fill_alpha", "line_alpha"} = {}
            /\ \A f \in fields :
                  \A kv \in Passed : kv[1] = f => kv[2] = "caller's " \o f
            /\ \A f \in fields : \E kv \in Passed : kv[1] = f

\* scatter(x, y, fill_color="red"): no default color, a default alpha
C14_Witness ==
    /\ last.op = "scatter" /\ last.error = NoneStr
    /\ last.args.kwargs = {"fill_color"}
    /\ "color" \notin {kv[1] : kv \in Passed}
    /\ <<"alpha", "get_default_alpha()">> \in Passed

\* the marker names, each the name of its glyph operation
MarkerNames ==
    {"asterisk", "circle", "circle_cross", "circle_x", "cross", "diamond",
     "diamond_cross", "inverted_triangle", "square", "square_x", "square_cross",
     "triangle", "x"}
MarkerAliases == {"*", "+", "o", "ox", "o+"}

\* the glyph operation the marker table has for a marker
MarkerOperation(m) ==
    CASE m = "*" -> "asterisk"
      [] m = "+" -> "cross"
      [] m = "o" -> "circle"
      [] m = "ox" -> "circle_x"
      [] m = "o+" -> "circle_cross"
      [] m = NoneStr -> "circle"
      [] OTHER -> m

(***************************************************************************)
(* C15: with a marker of the marker table (circle when none is given)      *)
(* scatter calls exactly one glyph operation, the one the table has for    *)
(* the marker, an alias calling the operation of the name it stands for;   *)
(* with any other marker it raises an invalid-argument error that names    *)
(* the marker, calls no glyph operation, pushes nothing and saves nothing, *)
(* whatever sinks are configured.                                          *)
(***************************************************************************)
C15_MarkerDispatch ==
    last.op = "scatter" =>
        LET m == last.args.marker
            funcs == Calls(last.events, "func")
        IN  IF m \in MarkerNames \cup MarkerAliases \cup {NoneStr}
            THEN /\ last.error = NoneStr
                 /\ Cardinality(funcs) = 1
                 /\ \A i \in funcs : last.events[i].name = MarkerOperation(m)
            ELSE /\ last.error = "ValueError: Invalid marker type '" \o m \o "'"
                 /\ last.events = <<>>

\* an unknown marker refused with a session and an autosaving file configured
C15_Witness ==
    /\ last.op = "scatter"
    /\ last.args.marker = "bogus"
    /\ last.error # NoneStr
    /\ default_session # None
    /\ default_file # None /\ default_file.autosave
    /\ default_document.autostore

(***************************************************************************)
(* C17: a drawing call that does not raise returns its result under every  *)
(* sink configuration: a wrapped glyph operation returns what the          *)
(* underlying operation returned, pushed and saved or not, and gridplot    *)
(* returns the GridPlot it made, not None.                                 *)
(***************************************************************************)
C17_DrawingReturnsResult ==
    (Drawing /\ last.error = NoneStr) =>
        /\ Wrapped =>
              \A i \in Calls(last.events, "func") : last.retval = last.events[i].name
        /\ last.op = "gridplot" => last.retval # NoneStr

(***************************************************************************)
(* figure and gridplot on a document of several plots.                     *)
(***************************************************************************)
NextGrid ==
    \/ figure
    \/ \E a \in PlotArrangements(default_document) :
          gridplot_within(MaxGridCalls, a, NoneStr)

SpecGrid == Init /\ [][NextGrid]_vars

\* the plots an arrangement names, in whatever row
Arranged(plot_arrangement) ==
    {p \in {Plot(i) : i \in 1..MaxPlots} :
        \E i \in DOMAIN plot_arrangement :
            \E j \in DOMAIN plot_arrangement[i] : plot_arrangement[i][j] = p}

(***************************************************************************)
(* C16: after any sequence of gridplot calls, also when their arrangements *)
(* overlap, no plot of an arrangement is a top-level child of the          *)
(* document's context and no child is listed twice; each gridplot call     *)
(* registers exactly one new GridPlot, which holds the arrangement of the  *)
(* call, and leaves every child it did not group in place.                 *)
(***************************************************************************)
C16_GridplotChildren ==
    [][LET before == default_document.children
           after == default_document'.children
           grids == Grids(default_document')
       IN  /\ \A g \in grids : \A p \in Arranged(g.children) : ~BagIn(p, after)
           /\ \A c \in BagToSet(after) : CopiesIn(c, after) = 1
           /\ last'.op = "gridplot" =>
                 /\ Grids(default_document) \subseteq grids
                 /\ Cardinality(grids \ Grids(default_document)) = 1
                 /\ \A g \in grids \ Grids(default_document) :
                       g.children = last'.args.plot_arrangement
                 /\ \A c \in BagToSet(before) :
                       c \notin Arranged(last'.args.plot_arrangement) => BagIn(c, after)
      ]_vars

\* two grids whose arrangements share a plot, beside a plot never grouped
C16_Witness ==
    /\ last.op = "gridplot"
    /\ \E g1, g2 \in Grids(default_document) :
          /\ g1 # g2
          /\ Arranged(g1.children) \cap Arranged(g2.children) # {}
          /\ Len(g2.children) = 2
    /\ \E p \in default_document.plots : BagIn(p, default_document.children)

(***************************************************************************)
(* The accessors called before and after a plot exists.                    *)
(***************************************************************************)
NextAccess ==
    \/ figure
    \/ \E n \in DrawnGlyphs : glyph(n)
    \/ \E n \in Accessors, r \in RendererLists : accessor_call(n, r)

SpecAccess == Init /\ [][NextAccess]_vars

(***************************************************************************)
(* C18: xaxis(), yaxis(), legend(), xgrid() and ygrid() return None when   *)
(* the current document has no current plot, and a collection, never None, *)
(* when it has one, also when the plot holds no renderer of the kind asked *)
(* for: the two cases are told apart by the value returned.                *)
(***************************************************************************)
C18_AccessorsTellNoPlot ==
    last.op \in {"xaxis", "yaxis", "legend", "xgrid", "ygrid"} =>
        /\ last.error = NoneStr
        /\ curplot = None => last.retval = None
        /\ curplot # None =>
              /\ last.retval # None
              /\ last.retval.class = "_list_attr_splat"
              /\ \A i \in DOMAIN last.retval.items :
                    last.retval.items[i] \in
                        {last.args.p.renderers[j] : j \in DOMAIN last.args.p.renderers}

\* an accessor of a plot that holds none of what it asks for: an empty collection
C18_Witness ==
    /\ last.op = "xgrid"
    /\ curplot # None
    /\ last.args.p.renderers = <<Axis(0), Legend, Axis(0)>>
    /\ last.retval = _list_attr_splat(<<>>)

(***************************************************************************)
(* C19: axis() and grid() return None and raise nothing when the current   *)
(* document has no current plot, as xaxis() and the other accessors of one *)
(* dimension do.                                                           *)
(***************************************************************************)
C19_CombinedAccessorsNoPlot ==
    (last.op \in {"axis", "grid"} /\ curplot = None) =>
        /\ last.error = NoneStr
        /\ last.retval = None

(***************************************************************************)
(* Glyph operations whose collaborators may raise, under each sink         *)
(* configuration.                                                          *)
(***************************************************************************)
NextFail ==
    \/ \E a \in BOOLEAN : output_file("a.html", "Bokeh Plot", a, "inline", "static")
    \/ output_server("doc", None, "default", NoneStr)
    \/ output_notebook
    \/ \E v \in BOOLEAN : set_autostore(v)
    \/ \E n \in DrawnGlyphs, f \in SUBSET Collaborators : glyph_raising(n, f)

SpecFail == Init /\ [][NextFail]_vars

(***************************************************************************)
(* C20: a failure inside a wrapped drawing call reaches the caller and     *)
(* ends the call there: when the glyph operation raises, the call neither  *)
(* pushes nor saves; when the push raises, the call does not save; and the *)
(* default session, the file sink and the notebook flag are as they were.  *)
(***************************************************************************)
C20_FailurePropagates ==
    [][last'.op = "glyph" =>
          LET fails == last'.args.fails
              events == last'.events
          IN  /\ "func" \in fails =>
                    /\ last'.error = "func raised"
                    /\ Calls(events, "push_dirty") = {}
                    /\ Calls(events, "write") = {}
              /\ ("func" \notin fails /\ "push_dirty" \in fails
                        /\ Calls(events, "push_dirty") # {}) =>
                    /\ last'.error = "push_dirty raised"
                    /\ Calls(events, "write") = {}
              /\ last'.error # NoneStr =>
                    UNCHANGED <<default_session, default_file, default_notebook>>
      ]_vars

\* a push that raised with an autosaving file configured: nothing was written
C20_Witness ==
    /\ last.op = "glyph"
    /\ last.args.fails = {"push_dirty"}
    /\ last.error = "push_dirty raised"
    /\ default_file # None /\ default_file.autosave
    /\ Writes = {}

====
